---- MODULE Spec2Model ----
(***************************************************************************)
(* Model of the bycss/cursorcs utilities:                                  *)
(*   - cf_bulk_delete_dns.py : main() = fetch -> filter -> confirm ->      *)
(*     delete against the Cloudflare API (specification Spec);             *)
(*   - filter_records as a pure function (specification SpecFilter);       *)
(*   - todo.py : the JSON-backed task list (specification SpecTodo).       *)
(* Python strings are sequences of one-character strings, so that          *)
(* str.lower(), str.strip(), startswith() and `in` are computed.           *)
(***************************************************************************)
EXTENDS Integers, Sequences, FiniteSets, TLC

VARIABLES
    \* ---- cf_bulk_delete_dns.py: main() ----
    args,          \* the parsed command line (argparse.Namespace)
    env,           \* what the run finds outside: names file, token
    pc,            \* position in main()
    names,         \* main's `names`
    page,          \* fetch_dns_records: `page`
    acc,           \* fetch_dns_records: its local `records`
    fetched,       \* TRUE once fetch_dns_records has returned to main
    records,       \* main's `records` (assigned when the fetch returns)
    listCalls,     \* every list_dns_records call and its response, in order
    filtered,      \* main's `filtered_records`
    preview,       \* the table rows confirm() printed
    inputReads,    \* number of input() calls
    answer,        \* what input() returned (an optional string)
    confirmed,     \* the value of the confirm() call, as an optional boolean
    idx,           \* delete_records: position of the loop (1-based)
    deleteCalls,   \* every delete_dns_record call, in order
    notices,       \* messages printed, in order
    exitCode,      \* the process exit code, -1 while running
    \* ---- filter_records as a function ----
    fpc, fRecords, fExact, fContains, fResult,
    \* ---- todo.py ----
    tasks,         \* content of tasks.json
    prevTasks,     \* content of tasks.json before the last command
    lastCmd,       \* the last command run and its argument
    todoOut        \* what the last command printed

dnsVars == <<args, env, pc, names, page, acc, fetched, records, listCalls,
             filtered, preview, inputReads, answer, confirmed, idx,
             deleteCalls, notices, exitCode>>
filterVars == <<fpc, fRecords, fExact, fContains, fResult>>
todoVars == <<tasks, prevTasks, lastCmd, todoOut>>
vars == <<dnsVars, filterVars, todoVars>>

----------------------------------------------------------------------------
\* Bounds of the model.

\* Largest total_pages a list response reports.
MaxPages == 2
\* Longest record sequence given to filter_records in SpecFilter.
MaxRecs == 2
\* Largest number of tasks stored in tasks.json.
MaxTasks == 2

\* PAGE_SIZE of cf_bulk_delete_dns.py.
PAGE_SIZE == 100

----------------------------------------------------------------------------
\* Python values.

\* An optional value: None (or a missing dictionary key) and Some(v).
None == [k |-> "none", v |-> <<>>]
\* JSON null stored under a key that is present.
Null == [k |-> "null", v |-> <<>>]
Str(s) == [k |-> "str", v |-> s]

\* str.lower() on one character.
LowerChar(c) ==
    CASE c = "A" -> "a"
      [] c = "B" -> "b"
      [] c = "E" -> "e"
      [] c = "N" -> "n"
      [] c = "O" -> "o"
      [] c = "S" -> "s"
      [] c = "Y" -> "y"
      [] OTHER -> c

\* str.lower()
Lower(s) == [i \in DOMAIN s |-> LowerChar(s[i])]

\* str.isspace() on one character.
IsSpace(c) == c \in {" ", "\t", "\n"}

RECURSIVE LStrip(_)
LStrip(s) == IF s # <<>> /\ IsSpace(Head(s)) THEN LStrip(Tail(s)) ELSE s

RECURSIVE RStrip(_)
RStrip(s) ==
    IF s # <<>> /\ IsSpace(s[Len(s)]) THEN RStrip(SubSeq(s, 1, Len(s) - 1)) ELSE s

\* str.strip()
Strip(s) == RStrip(LStrip(s))

\* s.startswith(p)
StartsWith(s, p) == Len(p) <= Len(s) /\ SubSeq(s, 1, Len(p)) = p

\* sub in s
Contains(sub, s) ==
    \E i \in 0..(Len(s) - Len(sub)) : SubSeq(s, i + 1, i + Len(sub)) = sub

\* str(record.get(key, "")) for the value stored under key: a missing key
\* gives the default "", a null gives str(None).
StrGet(val) ==
    CASE val.k = "none" -> <<>>
      [] val.k = "null" -> <<"N", "o", "n", "e">>
      [] OTHER -> val.v

\* Sequences over S of length at most n.
SeqsUpTo(S, n) == UNION {[1..m -> S] : m \in 0..n}

----------------------------------------------------------------------------
\* cf_bulk_delete_dns.py: the inputs of a run.

\* total_pages of a list response: missing, or an integer.
NoInt == [k |-> "none", n |-> 0]
SomeInt(i) == [k |-> "int", n |-> i]
TotalPagesVals == {NoInt} \cup {SomeInt(i) : i \in 0..MaxPages}

\* DNS records as the API returns them: "id" and "name" may be a string,
\* null, or missing.
Rec(id, name) == [id |-> id, name |-> name]
RecA == Rec(Str(<<"1">>), Str(<<"a">>))
RecAb == Rec(Str(<<"2">>), Str(<<"A", "b">>))
RecNullId == Rec(Null, Str(<<"b">>))
RecEmptyId == Rec(Str(<<>>), None)
RecNoId == Rec(None, Str(<<"a", "b">>))
RecB == Rec(Str(<<"3">>), Str(<<"B">>))

\* The zone's record store, as the pages the list calls return.
Zones ==
    { <<>>,
      << <<RecA, RecAb>>, <<RecNullId>>, <<RecB>> >>,
      << <<RecEmptyId>>, <<RecA, RecA>>, <<RecNoId>> >>,
      << <<RecB, RecNoId>>, <<RecAb>> >> }

ZonePage(zone, p) == IF p \in DOMAIN zone THEN zone[p] ELSE <<>>

\* The real identifiers of the zone's records.
ZoneIds(zone) ==
    {zone[p][i].id.v : <<p, i>> \in
        {<<p, i>> \in (DOMAIN zone) \X (1..2) :
            i \in DOMAIN zone[p] /\ zone[p][i].id.k = "str"}}

\* --name values.
NameArgs == { <<>>, << <<"a">> >>, << <<"A", "B">>, <<"b">> >> }

\* Contents of the names file, as the lines iterating the file yields.
NoFile == [k |-> "none", lines |-> <<>>]
Unreadable == [k |-> "oserror", lines |-> <<>>]
File(lines) == [k |-> "file", lines |-> lines]
NamesFiles ==
    { Unreadable,
      File(<< <<"#", " ", "a", "\n">>, <<"\n">>, <<" ", "\n">> >>),
      File(<< <<" ", "A", "b", " ", "\n">>, <<" ", "#", "b", "\n">>, <<"\n">> >>),
      File(<< <<"b", "\n">>, <<"a">> >>) }

\* --contains values.
ContainsArgs == { None, Str(<<>>), Str(<<"A">>), Str(<<"b">>) }

\* What the user may type at the prompt; input() has dropped the newline.
Answers ==
    { <<>>, <<"y">>, <<"y", "e", "s">>, <<" ", "Y", "e", "s", " ">>,
      <<"Y", "E", "S">>, <<"\t", "Y">>, <<"n">>, <<"N", "o">>, <<"y", "e">>,
      <<"y", "e", "s", "s">>, <<"y", " ", "e", "s">> }

ArgSpace ==
    [name : NameArgs, names_file : BOOLEAN, contains : ContainsArgs,
     dry_run : BOOLEAN, yes : BOOLEAN]

EnvSpace == [file : NamesFiles \cup {NoFile}, token : BOOLEAN, zone : Zones]

----------------------------------------------------------------------------
\* cf_bulk_delete_dns.py: the functions.

\* load_names_from_file: strip each line, keep the non-empty ones that do
\* not start with "#".
load_names_from_file(lines) ==
    LET stripped == [i \in DOMAIN lines |-> Strip(lines[i])]
    IN  SelectSeq(stripped, LAMBDA l : l # <<>> /\ ~StartsWith(l, <<"#">>))

\* Mutant of ListFailed: only a raised error counts, the success flag is not
\* looked at.
ListFailedRaisedOnly(resp) == resp.raised

\* fetch_dns_records, line 162: `not payload.get("success")`, or the
\* CloudflareAPIError request() raised.
ListFailed(resp) == resp.raised \/ ~resp.success

\* Mutant of LastPage: `>` for `>=`.
LastPageStrict(p, resp) ==
    p > (IF resp.total_pages.k = "none" THEN 0 ELSE resp.total_pages.n)

\* fetch_dns_records, line 166: the loop's exit test.
LastPage(p, resp) ==
    p >= (IF resp.total_pages.k = "none" THEN 0 ELSE resp.total_pages.n)

\* Mutant of ExactSet: the names are not lower-cased.
ExactSetNoFold(exact_names) ==
    IF exact_names.k = "none" THEN {}
    ELSE {exact_names.v[i] : i \in DOMAIN exact_names.v}

\* filter_records, line 178: the set of lower-cased names of
\* `exact_names or []`.
ExactSet(exact_names) ==
    IF exact_names.k = "none" THEN {}
    ELSE {Lower(exact_names.v[i]) : i \in DOMAIN exact_names.v}

\* filter_records, line 179.
ContainsLower(contains) ==
    IF contains.k = "str" /\ contains.v # <<>> THEN Str(Lower(contains.v))
    ELSE None

\* Mutant of Passes: a record passes when either criterion accepts it.
PassesEither(record, exact_set, contains_lower) ==
    LET name == Lower(StrGet(record.name))
        has_contains == contains_lower.k = "str" /\ contains_lower.v # <<>>
    IN  \/ exact_set = {} /\ ~has_contains
        \/ exact_set # {} /\ name \in exact_set
        \/ has_contains /\ Contains(contains_lower.v, name)

\* filter_records, lines 183-188: whether the loop appends the record.
Passes(record, exact_set, contains_lower) ==
    LET name == Lower(StrGet(record.name))
    IN  /\ ~(exact_set # {} /\ name \notin exact_set)
        /\ ~(contains_lower.k = "str" /\ contains_lower.v # <<>>
                /\ ~Contains(contains_lower.v, name))

filter_records(recs, exact_names, contains) ==
    LET exact_set == ExactSet(exact_names)
        contains_lower == ContainsLower(contains)
    IN  SelectSeq(recs, LAMBDA r : Passes(r, exact_set, contains_lower))

\* main, line 258: `names or None`.
NamesOrNone(ns) == IF ns = <<>> THEN None ELSE [k |-> "list", v |-> ns]

\* Mutant of Affirmative: the answer is not stripped.
AffirmativeNoStrip(ans) == Lower(ans) \in { <<"y">>, <<"y", "e", "s">> }

\* confirm, lines 210-211.
Affirmative(ans) == Lower(Strip(ans)) \in { <<"y">>, <<"y", "e", "s">> }

\* confirm: whether it reaches input().
ConfirmReads(recs, assume_yes) == recs # <<>> /\ ~assume_yes

\* confirm: its value; ans is what input() returns when it is reached.
confirm(recs, assume_yes, ans) ==
    IF recs = <<>> THEN FALSE
    ELSE IF assume_yes THEN TRUE
    ELSE Affirmative(ans)

\* confirm, lines 200-205: the rows printed (identifier and name columns).
ConfirmRows(recs) ==
    [i \in DOMAIN recs |-> [rid |-> StrGet(recs[i].id), name |-> StrGet(recs[i].name)]]

\* delete_records, line 218.
RecordId(record) == StrGet(record.id)

\* Optional boolean.
NoBool == [k |-> "none", b |-> FALSE]
Bool(b) == [k |-> "bool", b |-> b]

\* delete_records, line 220: `if not record_id`.
SkipRecord(record_id) == record_id = <<>>

\* Mutant of LoopNext: a raised error ends the loop (`break` for `continue`).
LoopBreakOnRaise(i, n, outcome) == IF outcome = "raised" THEN n + 1 ELSE i + 1

\* delete_records: every branch of the loop body ends in `continue` or falls
\* through, so each outcome moves on to the next of the n records.
LoopNext(i, n, outcome) == i + 1

\* Mutant of DryRunMode: --yes overrides --dry-run.
DryRunUnlessYes(a) == a.dry_run /\ ~a.yes

\* main, line 260.
DryRunMode(a) == a.dry_run

Notice(kind, pos) == [kind |-> kind, pos |-> pos]

----------------------------------------------------------------------------
\* Idle values of the variables a specification leaves alone.

FilterIdle ==
    /\ fpc = "idle" /\ fRecords = <<>> /\ fExact = None /\ fContains = None
    /\ fResult = <<>>

TodoIdle ==
    /\ tasks = <<>> /\ prevTasks = <<>> /\ lastCmd = [op |-> "none", index |-> 0]
    /\ todoOut = <<>>

DnsIdle ==
    /\ args = [name |-> <<>>, names_file |-> FALSE, contains |-> None,
               dry_run |-> FALSE, yes |-> FALSE]
    /\ env = [file |-> NoFile, token |-> FALSE, zone |-> <<>>]
    /\ pc = "idle" /\ names = <<>> /\ page = 0 /\ acc = <<>> /\ fetched = FALSE
    /\ records = <<>> /\ listCalls = <<>> /\ filtered = <<>> /\ preview = <<>>
    /\ inputReads = 0 /\ answer = None /\ confirmed = NoBool /\ idx = 0
    /\ deleteCalls = <<>> /\ notices = <<>> /\ exitCode = -1

----------------------------------------------------------------------------
\* cf_bulk_delete_dns.py: main().

Init ==
    /\ args \in ArgSpace
    /\ env \in EnvSpace
    /\ (env.file = NoFile) <=> ~args.names_file
    /\ pc = "start" /\ names = <<>> /\ page = 0 /\ acc = <<>> /\ fetched = FALSE
    /\ records = <<>> /\ listCalls = <<>> /\ filtered = <<>> /\ preview = <<>>
    /\ inputReads = 0 /\ answer = None /\ confirmed = NoBool /\ idx = 0
    /\ deleteCalls = <<>> /\ notices = <<>> /\ exitCode = -1
    /\ FilterIdle /\ TodoIdle

\* Leaving main with an exit code.
Exit(code, kind) ==
    /\ exitCode' = code
    /\ notices' = Append(notices, Notice(kind, 0))
    /\ pc' = "done"

\* main, lines 241-243.
UsageError ==
    /\ pc = "start"
    /\ args.name # <<>> /\ args.names_file
    /\ Exit(2, "usage")
    /\ UNCHANGED <<args, env, names, page, acc, fetched, records, listCalls,
                   filtered, preview, inputReads, answer, confirmed, idx,
                   deleteCalls>>
    /\ UNCHANGED <<filterVars, todoVars>>

\* main, lines 245-247: load_names_from_file raises SystemExit on OSError.
NamesFileError ==
    /\ pc = "start"
    /\ ~(args.name # <<>> /\ args.names_file)
    /\ args.names_file /\ env.file.k = "oserror"
    /\ Exit(1, "names-file")
    /\ UNCHANGED <<args, env, names, page, acc, fetched, records, listCalls,
                   filtered, preview, inputReads, answer, confirmed, idx,
                   deleteCalls>>
    /\ UNCHANGED <<filterVars, todoVars>>

\* main, lines 245-247: `names`.
LoadedNames ==
    IF args.names_file THEN args.name \o load_names_from_file(env.file.lines)
    ELSE args.name

\* main, line 249: get_auth_token raises SystemExit without a token.
NoToken ==
    /\ pc = "start"
    /\ ~(args.name # <<>> /\ args.names_file)
    /\ ~(args.names_file /\ env.file.k = "oserror")
    /\ ~env.token
    /\ names' = LoadedNames
    /\ Exit(1, "no-token")
    /\ UNCHANGED <<args, env, page, acc, fetched, records, listCalls,
                   filtered, preview, inputReads, answer, confirmed, idx,
                   deleteCalls>>
    /\ UNCHANGED <<filterVars, todoVars>>

\* main, lines 245-253: the names are loaded, the client is built and
\* fetch_dns_records starts at page 1.
Setup ==
    /\ pc = "start"
    /\ ~(args.name # <<>> /\ args.names_file)
    /\ ~(args.names_file /\ env.file.k = "oserror")
    /\ env.token
    /\ names' = LoadedNames
    /\ page' = 1
    /\ pc' = "fetch"
    /\ UNCHANGED <<args, env, acc, fetched, records, listCalls, filtered,
                   preview, inputReads, answer, confirmed, idx, deleteCalls,
                   notices, exitCode>>
    /\ UNCHANGED <<filterVars, todoVars>>

\* The responses list_dns_records may give for page p: request() raises
\* CloudflareAPIError, or returns an envelope.
ListResponses(p) ==
    {[raised |-> TRUE, success |-> FALSE, total_pages |-> NoInt, result |-> <<>>],
     [raised |-> FALSE, success |-> FALSE, total_pages |-> NoInt, result |-> <<>>]}
    \cup
    {[raised |-> FALSE, success |-> TRUE, total_pages |-> tp,
      result |-> ZonePage(env.zone, p)] : tp \in TotalPagesVals}

\* fetch_dns_records: one iteration of the loop, lines 161-168, and on the
\* last one the return to main (line 253) or the handler (lines 254-256).
FetchPage ==
    /\ pc = "fetch"
    /\ \E resp \in ListResponses(page) :
        /\ listCalls' = Append(listCalls,
                [page |-> page, per_page |-> PAGE_SIZE, raised |-> resp.raised,
                 success |-> resp.success, total_pages |-> resp.total_pages])
        /\ IF ListFailed(resp)
           THEN /\ Exit(1, "fetch-error")
                /\ UNCHANGED <<page, acc, fetched, records>>
           ELSE /\ acc' = acc \o resp.result
                /\ IF LastPage(page, resp)
                   THEN /\ records' = acc'
                        /\ fetched' = TRUE
                        /\ pc' = "filter"
                        /\ UNCHANGED page
                   ELSE /\ page' = page + 1
                        /\ UNCHANGED <<records, fetched, pc>>
                /\ UNCHANGED <<notices, exitCode>>
    /\ UNCHANGED <<args, env, names, filtered, preview, inputReads, answer,
                   confirmed, idx, deleteCalls>>
    /\ UNCHANGED <<filterVars, todoVars>>

\* main, line 258.
FilterStep ==
    /\ pc = "filter"
    /\ filtered' = filter_records(records, NamesOrNone(names), args.contains)
    /\ pc' = "gate"
    /\ UNCHANGED <<args, env, names, page, acc, fetched, records, listCalls,
                   preview, inputReads, answer, confirmed, idx, deleteCalls,
                   notices, exitCode>>
    /\ UNCHANGED <<filterVars, todoVars>>

\* What input() may return when confirm reaches it.
Typed(assume_yes) ==
    IF ConfirmReads(filtered, assume_yes) THEN Answers ELSE { <<>> }

\* confirm(filtered_records, assume_yes): what it prints and reads.
ConfirmCall(assume_yes, ans) ==
    /\ preview' = IF filtered = <<>> THEN <<>> ELSE ConfirmRows(filtered)
    /\ inputReads' = inputReads + IF ConfirmReads(filtered, assume_yes) THEN 1 ELSE 0
    /\ answer' = IF ConfirmReads(filtered, assume_yes) THEN Str(ans) ELSE None
    /\ confirmed' = Bool(confirm(filtered, assume_yes, ans))

\* main, lines 260-262.
DryRun ==
    /\ pc = "gate"
    /\ DryRunMode(args)
    /\ \E ans \in Typed(TRUE) : ConfirmCall(TRUE, ans)
    /\ notices' = IF filtered = <<>>
                  THEN notices \o <<Notice("no-match", 0), Notice("exit", 0)>>
                  ELSE Append(notices, Notice("exit", 0))
    /\ exitCode' = 0
    /\ pc' = "done"
    /\ UNCHANGED <<args, env, names, page, acc, fetched, records, listCalls,
                   filtered, idx, deleteCalls>>
    /\ UNCHANGED <<filterVars, todoVars>>

\* main, lines 264-268.
ConfirmStep ==
    /\ pc = "gate"
    /\ ~DryRunMode(args)
    /\ \E ans \in Typed(args.yes) :
        /\ ConfirmCall(args.yes, ans)
        /\ IF confirm(filtered, args.yes, ans)
           THEN /\ idx' = 1
                /\ pc' = "delete"
                /\ UNCHANGED <<notices, exitCode>>
           ELSE /\ notices' = notices
                        \o (IF filtered = <<>> THEN <<Notice("no-match", 0)>> ELSE <<>>)
                        \o <<Notice("aborted", 0)>>
                /\ exitCode' = 0
                /\ pc' = "done"
                /\ UNCHANGED idx
    /\ UNCHANGED <<args, env, names, page, acc, fetched, records, listCalls,
                   filtered, deleteCalls>>
    /\ UNCHANGED <<filterVars, todoVars>>

\* confirm, line 210: input() raises EOFError on a closed console; nothing
\* catches it and the interpreter exits with status 1.
InputEOF ==
    /\ pc = "gate"
    /\ ~DryRunMode(args)
    /\ ConfirmReads(filtered, args.yes)
    /\ preview' = ConfirmRows(filtered)
    /\ inputReads' = inputReads + 1
    /\ Exit(1, "eof")
    /\ UNCHANGED <<args, env, names, page, acc, fetched, records, listCalls,
                   filtered, answer, confirmed, idx, deleteCalls>>
    /\ UNCHANGED <<filterVars, todoVars>>

\* What delete_dns_record may do: request() raises CloudflareAPIError, or
\* returns an envelope with success false or true.
DeleteOutcomes == {"raised", "failure", "success"}

\* delete_records: one iteration of the loop, lines 217-235.
DeleteStep ==
    /\ pc = "delete"
    /\ idx <= Len(filtered)
    /\ LET record_id == RecordId(filtered[idx])
       IN  IF SkipRecord(record_id)
           THEN /\ notices' = Append(notices, Notice("skip", idx))
                /\ idx' = idx + 1
                /\ UNCHANGED deleteCalls
           ELSE \E outcome \in DeleteOutcomes :
                /\ deleteCalls' = Append(deleteCalls, [pos |-> idx, id |-> record_id])
                /\ notices' = Append(notices, Notice(outcome, idx))
                /\ idx' = LoopNext(idx, Len(filtered), outcome)
    /\ UNCHANGED <<args, env, pc, names, page, acc, fetched, records, listCalls,
                   filtered, preview, inputReads, answer, confirmed, exitCode>>
    /\ UNCHANGED <<filterVars, todoVars>>

\* delete_records returns and main returns 0, lines 268-269.
DeleteReturn ==
    /\ pc = "delete"
    /\ idx > Len(filtered)
    /\ Exit(0, "exit")
    /\ UNCHANGED <<args, env, names, page, acc, fetched, records, listCalls,
                   filtered, preview, inputReads, answer, confirmed, idx,
                   deleteCalls>>
    /\ UNCHANGED <<filterVars, todoVars>>

Next ==
    \/ UsageError
    \/ NamesFileError
    \/ NoToken
    \/ Setup
    \/ FetchPage
    \/ FilterStep
    \/ DryRun
    \/ ConfirmStep
    \/ InputEOF
    \/ DeleteStep
    \/ DeleteReturn

Spec == Init /\ [][Next]_vars

----------------------------------------------------------------------------
\* filter_records as a function of its arguments.

\* Names of the records given to filter_records.
FilterNames ==
    { None, Str(<<>>), Str(<<"a">>), Str(<<"A">>), Str(<<"A", "b">>), Str(<<"b">>) }

FilterRecs == {Rec(Str(<<i>>), n) : i \in {"1", "2"}, n \in FilterNames}

List(l) == [k |-> "list", v |-> l]

\* exact_names: None, or an iterable of names.
ExactArgs ==
    { None, List(<<>>), List(<< <<"A">> >>), List(<< <<"a">>, <<"B">> >>),
      List(<< <<"a", "B">>, <<"a", "B">> >>), List(<< <<>> >>) }

\* contains: None, or a string.
FilterContainsArgs ==
    { None, Str(<<>>), Str(<<"A">>), Str(<<"b">>), Str(<<"a", "B">>) }

InitFilter ==
    /\ fpc = "call"
    /\ fRecords \in SeqsUpTo(FilterRecs, MaxRecs)
    /\ fExact \in ExactArgs
    /\ fContains \in FilterContainsArgs
    /\ fResult = <<>>
    /\ DnsIdle /\ TodoIdle

ApplyFilter ==
    /\ fpc = "call"
    /\ fResult' = filter_records(fRecords, fExact, fContains)
    /\ fpc' = "ret"
    /\ UNCHANGED <<fRecords, fExact, fContains>>
    /\ UNCHANGED <<dnsVars, todoVars>>

NextFilter == ApplyFilter

SpecFilter == InitFilter /\ [][NextFilter]_vars

----------------------------------------------------------------------------
\* todo.py.

Descriptions == {"x", "y"}

Task(d, done) == [description |-> d, done |-> done]

\* What a command prints.
Line(kind, index, task) ==
    [kind |-> kind, index |-> index, description |-> task.description,
     done |-> task.done]

NoTask == Task("", FALSE)

\* tasks[j] of Python for a list of n elements: indices -n..n-1 are valid,
\* a negative one counts from the end; anything else raises IndexError.
IndexValid(n, j) == -n <= j /\ j <= n - 1

\* The 1-based position tasks[j] denotes.
IndexPos(n, j) == IF j >= 0 THEN j + 1 ELSE n + j + 1

\* list.pop(j)
Pop(l, pos) == SubSeq(l, 1, pos - 1) \o SubSeq(l, pos + 1, Len(l))

\* The integers the command line may give as index.
Indexes == (-(MaxTasks + 1))..(MaxTasks + 1)

InitTodo ==
    /\ tasks = <<>>
    /\ prevTasks = tasks
    /\ lastCmd = [op |-> "none", index |-> 0]
    /\ todoOut = <<>>
    /\ DnsIdle /\ FilterIdle

\* add_task
AddTask ==
    /\ Len(tasks) < MaxTasks
    /\ \E d \in Descriptions :
        /\ tasks' = Append(tasks, Task(d, FALSE))
        /\ todoOut' = <<Line("added", 0, Task(d, FALSE))>>
    /\ prevTasks' = tasks
    /\ lastCmd' = [op |-> "add", index |-> 0]
    /\ UNCHANGED <<dnsVars, filterVars>>

\* list_tasks
ListTasks ==
    /\ \E show_all \in BOOLEAN :
        todoOut' =
            IF tasks = <<>> THEN <<Line("no-tasks", 0, NoTask)>>
            ELSE LET shown == SelectSeq([i \in DOMAIN tasks |-> Line("task", i, tasks[i])],
                                        LAMBDA l : show_all \/ ~l.done)
                 IN  shown
    /\ prevTasks' = tasks
    /\ lastCmd' = [op |-> "list", index |-> 0]
    /\ UNCHANGED tasks
    /\ UNCHANGED <<dnsVars, filterVars>>

\* complete_task
CompleteTask ==
    /\ \E index \in Indexes :
        /\ lastCmd' = [op |-> "done", index |-> index]
        /\ IF IndexValid(Len(tasks), index - 1)
           THEN LET pos == IndexPos(Len(tasks), index - 1)
                IN  /\ tasks' = [tasks EXCEPT ![pos].done = TRUE]
                    /\ todoOut' = <<Line("completed", index, tasks'[pos])>>
           ELSE /\ todoOut' = <<Line("no-task-with-index", index, NoTask)>>
                /\ UNCHANGED tasks
    /\ prevTasks' = tasks
    /\ UNCHANGED <<dnsVars, filterVars>>

\* delete_task
DeleteTask ==
    /\ \E index \in Indexes :
        /\ lastCmd' = [op |-> "delete", index |-> index]
        /\ IF IndexValid(Len(tasks), index - 1)
           THEN LET pos == IndexPos(Len(tasks), index - 1)
                IN  /\ tasks' = Pop(tasks, pos)
                    /\ todoOut' = <<Line("deleted", index, tasks[pos])>>
           ELSE /\ todoOut' = <<Line("no-task-with-index", index, NoTask)>>
                /\ UNCHANGED tasks
    /\ prevTasks' = tasks
    /\ UNCHANGED <<dnsVars, filterVars>>

NextTodo ==
    \/ AddTask
    \/ ListTasks
    \/ CompleteTask
    \/ DeleteTask

SpecTodo == InitTodo /\ [][NextTodo]_vars

----------------------------------------------------------------------------
\* Properties of fetch_dns_records.

ListOk(c) == ~c.raised /\ c.success

\* Every list call so far succeeded and reported total_pages = n.
StableTotal(n) ==
    /\ listCalls # <<>>
    /\ \A i \in DOMAIN listCalls :
        ListOk(listCalls[i]) /\ listCalls[i].total_pages = SomeInt(n)

\* C1: when every list response succeeds and reports the same total_pages
\* N >= 1, the calls made are for pages 1, 2, ... in order with page size
\* 100, there are never more than N of them, and the fetch has returned
\* exactly when N have been made; when the first response reports no
\* total_pages or 0, that call (page 1) is the only one and the fetch has
\* returned.
C1_FetchPageCount ==
    /\ \A n \in 1..MaxPages :
        StableTotal(n) =>
            /\ Len(listCalls) <= n
            /\ \A i \in DOMAIN listCalls :
                listCalls[i].page = i /\ listCalls[i].per_page = PAGE_SIZE
            /\ fetched <=> Len(listCalls) = n
    /\ (/\ listCalls # <<>>
        /\ ListOk(listCalls[1])
        /\ listCalls[1].total_pages \in {NoInt, SomeInt(0)})
        => /\ Len(listCalls) = 1
           /\ listCalls[1].page = 1
           /\ fetched

\* A fetch of MaxPages pages with a stable total_pages has returned.
C1_Witness ==
    /\ MaxPages >= 2
    /\ StableTotal(MaxPages)
    /\ Len(listCalls) = MaxPages
    /\ fetched
    /\ Len(records) >= 2

----------------------------------------------------------------------------
\* Properties of the fetch phase of main.

\* C2: once a list call has failed (success false, or CloudflareAPIError),
\* on whatever page, the fetch has returned nothing to main, main has left
\* with exit code 1, and no delete call has been or will be issued.
C2_FetchFailureAborts ==
    (\E i \in DOMAIN listCalls : ~ListOk(listCalls[i])) =>
        /\ pc = "done"
        /\ exitCode = 1
        /\ ~fetched
        /\ records = <<>>
        /\ filtered = <<>>
        /\ deleteCalls = <<>>
        /\ idx = 0

\* A failure on the second page, after records of the first were fetched,
\* in a run that would have deleted without asking.
C2_Witness ==
    /\ Len(listCalls) = 2
    /\ ListOk(listCalls[1])
    /\ ~listCalls[2].success /\ ~listCalls[2].raised
    /\ acc # <<>>
    /\ args.yes /\ ~args.dry_run
    /\ pc = "done"

----------------------------------------------------------------------------
\* Properties of the confirmation gate.

\* C3: in a dry run no delete call is issued and no console input is read,
\* whatever the records, the filter and --yes are; and when the run is over
\* after a successful fetch, the preview is exactly the filtered records and
\* the exit code is 0.
C3_DryRunDeletesNothing ==
    args.dry_run =>
        /\ deleteCalls = <<>>
        /\ inputReads = 0
        /\ idx = 0
        /\ (pc = "done" /\ fetched) =>
            /\ exitCode = 0
            /\ Len(preview) = Len(filtered)
            /\ \A i \in DOMAIN filtered :
                /\ preview[i].rid = StrGet(filtered[i].id)
                /\ preview[i].name = StrGet(filtered[i].name)

\* A finished dry run with --yes whose filter kept some records and dropped
\* others.
C3_Witness ==
    /\ args.dry_run /\ args.yes
    /\ pc = "done" /\ fetched
    /\ filtered # <<>>
    /\ Len(filtered) < Len(records)
    /\ preview # <<>>

\* The delete phase was entered.
DeleteEntered == idx >= 1

\* C4: in a run without --dry-run that got an answer from confirm, the delete
\* phase is entered iff the filtered set is non-empty and (--yes is set or
\* the typed answer, stripped and lower-cased, is "y" or "yes"); confirm on
\* an empty set is false whatever assume_yes is; confirm with assume_yes on a
\* non-empty set is true and reads nothing; and when confirm is false no
\* delete call is issued and the exit code is 0.
C4_ConfirmGate ==
    confirmed.k = "bool" =>
        /\ filtered = <<>> => ~confirmed.b
        /\ ~args.dry_run =>
            /\ DeleteEntered <=>
                /\ filtered # <<>>
                /\ \/ args.yes
                   \/ /\ answer.k = "str"
                      /\ Lower(Strip(answer.v)) \in { <<"y">>, <<"y", "e", "s">> }
            /\ (args.yes /\ filtered # <<>>) =>
                confirmed.b /\ inputReads = 0 /\ answer = None
            /\ ~confirmed.b =>
                deleteCalls = <<>> /\ exitCode = 0 /\ pc = "done"

\* The delete phase entered on a typed answer that needs stripping and
\* lower-casing.
C4_Witness ==
    /\ ~args.dry_run /\ ~args.yes
    /\ confirmed = Bool(TRUE)
    /\ answer = Str(<<" ", "Y", "e", "s", " ">>)
    /\ inputReads = 1
    /\ DeleteEntered

----------------------------------------------------------------------------
\* Properties of delete_records.

\* The record has a real, non-empty identifier.
HasId(record) == record.id.k = "str" /\ record.id.v # <<>>

\* The delete calls made for the record at position i.
CallsAt(i) == {c \in DOMAIN deleteCalls : deleteCalls[c].pos = i}

\* C5: once the loop of delete_records has passed a record with a non-empty
\* identifier, exactly one delete call was issued for it, carrying that
\* identifier; the calls are in the order of the records; and when main is
\* over after the delete phase, the loop has passed every record and main
\* returned 0.
C5_DeleteEachOnce ==
    DeleteEntered =>
        /\ \A i \in 1..(idx - 1) :
            HasId(filtered[i]) =>
                /\ Cardinality(CallsAt(i)) = 1
                /\ \A c \in CallsAt(i) : deleteCalls[c].id = filtered[i].id.v
        /\ \A c, d \in DOMAIN deleteCalls :
            c < d => deleteCalls[c].pos < deleteCalls[d].pos
        /\ \A c \in DOMAIN deleteCalls : deleteCalls[c].pos < idx
        /\ idx <= Len(filtered) + 1
        /\ pc = "done" => (idx = Len(filtered) + 1 /\ exitCode = 0)

\* A finished batch in which a delete raised, a later one was refused and a
\* later one succeeded.
C5_Witness ==
    /\ pc = "done"
    /\ Len(deleteCalls) >= 3
    /\ \E i, j, k \in DOMAIN notices :
        /\ i < j /\ j < k
        /\ notices[i].kind = "raised"
        /\ notices[j].kind = "failure"
        /\ notices[k].kind = "success"

\* C6: a record whose identifier is empty, missing or null gets a skip
\* notice and no delete call and no failure report, and the batch goes on;
\* every delete call carries the non-empty identifier of a fetched record.
C6_NoDeleteWithoutId ==
    DeleteEntered =>
        /\ \A i \in 1..(idx - 1) :
            ~HasId(filtered[i]) =>
                /\ CallsAt(i) = {}
                /\ \E m \in DOMAIN notices : notices[m] = Notice("skip", i)
                /\ ~\E m \in DOMAIN notices :
                    notices[m].pos = i /\ notices[m].kind \in {"raised", "failure"}
        /\ \A c \in DOMAIN deleteCalls :
            /\ HasId(filtered[deleteCalls[c].pos])
            /\ deleteCalls[c].id \in ZoneIds(env.zone)
            /\ deleteCalls[c].id # <<>>
        /\ pc = "done" => idx = Len(filtered) + 1

----------------------------------------------------------------------------
\* Properties of filter_records.

\* The name the filter compares: the record's name, the empty string when
\* the record has none.
NameOf(record) == IF record.name.k = "str" THEN record.name.v ELSE <<>>

\* The record's case-folded name is among the case-folded names ns.
InFolded(record, ns) == \E i \in DOMAIN ns : Lower(ns[i]) = Lower(NameOf(record))

\* The subsequence of s, order and duplicates kept, of the elements at the
\* positions in keep.
RECURSIVE Keep(_, _, _)
Keep(s, keep, i) ==
    IF i > Len(s) THEN <<>>
    ELSE (IF i \in keep THEN <<s[i]>> ELSE <<>>) \o Keep(s, keep, i + 1)

\* C7 as claimed: for every name set N, the empty one included, and no
\* substring criterion, the result is exactly the records whose folded name
\* is in the folded N.
C7_ExactNamesAnySet ==
    (fpc = "ret" /\ fExact.k = "list" /\ fContains = None) =>
        fResult = Keep(fRecords,
                       {i \in DOMAIN fRecords : InFolded(fRecords[i], fExact.v)}, 1)

\* C7 as amended: for every non-empty N and no substring criterion, the
\* result is exactly the records whose folded name is in the folded N; for
\* the empty N the result is the input.
C7_ExactNamesNonEmpty ==
    (fpc = "ret" /\ fExact.k = "list" /\ fContains = None) =>
        fResult =
            IF fExact.v = <<>> THEN fRecords
            ELSE Keep(fRecords,
                      {i \in DOMAIN fRecords : InFolded(fRecords[i], fExact.v)}, 1)

\* An exact-name filter that kept one record by a name of another case and
\* dropped another.
C7_Witness ==
    /\ fpc = "ret"
    /\ fExact = List(<< <<"a">>, <<"B">> >>)
    /\ fContains = None
    /\ Len(fRecords) = 2
    /\ Len(fResult) = 1
    /\ fResult[1].name = Str(<<"b">>)

\* A criterion is present: a non-empty name set, a non-empty substring.
ExactPresent == fExact.k = "list" /\ fExact.v # <<>>
ContainsPresent == fContains.k = "str" /\ fContains.v # <<>>

\* C8: the result is the subsequence of the input, in input order and with
\* duplicates kept, of the records whose folded name satisfies every
\* criterion present; with no criterion it is the input; a record without a
\* name counts as having the empty name.
C8_FilterSubsequence ==
    fpc = "ret" =>
        /\ fResult =
            Keep(fRecords,
                 {i \in DOMAIN fRecords :
                    /\ ExactPresent => InFolded(fRecords[i], fExact.v)
                    /\ ContainsPresent =>
                        Contains(Lower(fContains.v), Lower(NameOf(fRecords[i])))}, 1)
        /\ (~ExactPresent /\ ~ContainsPresent) => fResult = fRecords

\* Both criteria present, a duplicated record kept twice.
C8_Witness ==
    /\ fpc = "ret"
    /\ ExactPresent /\ ContainsPresent
    /\ Len(fRecords) >= 2
    /\ fRecords[1] = fRecords[2]
    /\ Len(fResult) >= 2
    /\ fResult[1] = fResult[2]

----------------------------------------------------------------------------
\* Properties of main's exact-name restriction.

\* C9: when --name or --names-file was given, whatever the file holds, a
\* delete call is issued only for records whose folded name is among the
\* folded names supplied or loaded.
C9_DeleteOnlyListedNames ==
    (args.name # <<>> \/ args.names_file) =>
        \A c \in DOMAIN deleteCalls :
            InFolded(filtered[deleteCalls[c].pos], names)

----------------------------------------------------------------------------
\* Properties of todo.py.

\* C10: complete_task(index) and delete_task(index) leave the stored list
\* unchanged and report that there is no such task unless
\* 1 <= index <= number of tasks; with such an index complete_task sets only
\* the done flag of task index, and delete_task removes only task index.
C10_TodoIndexInRange ==
    lastCmd.op \in {"done", "delete"} =>
        LET index == lastCmd.index
            n == Len(prevTasks)
        IN  IF 1 <= index /\ index <= n
            THEN IF lastCmd.op = "done"
                 THEN tasks = [prevTasks EXCEPT ![index].done = TRUE]
                 ELSE tasks = Keep(prevTasks, (1..n) \ {index}, 1)
            ELSE /\ tasks = prevTasks
                 /\ todoOut[1].kind = "no-task-with-index"

====
